---- MODULE Spec2Model ----
(***************************************************************************)
(* Model of the publish scheduler of social_poster: the in-memory task     *)
(* store (core/storage.py), the task state machine (core/models.py) and    *)
(* SimpleScheduler (core/scheduler.py) with the GUI entry points that      *)
(* drive it (gui/main_window.py).                                          *)
(*                                                                         *)
(* Threads.  Start, Stop, the timer tick, ExecuteNow, publish-immediately, *)
(* add, delete, manual retry and the cleanup timer all run on the Qt main  *)
(* thread, so they never overlap each other.  Every dispatched attempt     *)
(* runs on its own threading.Thread and calls _handle_task_success or      *)
(* _handle_task_error from that thread, so a completion can land between   *)
(* two iterations of the tick's for-loop.  The tick is therefore modelled  *)
(* as TickBegin (gathering the list) followed by one TickStep per list     *)
(* entry, with the worker callbacks free to interleave.                    *)
(*                                                                         *)
(* Time.  The clock counts minutes.  It advances in jumps of the minimum   *)
(* publish interval or of the retention window, which is enough to put a   *)
(* task on either side of both thresholds.                                 *)
(***************************************************************************)
EXTENDS Integers, Sequences, FiniteSets, TLC

\* ---- bounds of the model
MaxTasks == 2          \* tasks ever created (ids are never reused: uuid4)
MaxClockSteps == 1
MaxNesting == 3        \* guarded GUI operations in progress at once
MaxTesters == 4        \* AccountTester instances ever created
MaxProcesses == 4      \* tasks ever handed to the ProcessManager

\* ---- program constants
default_max_retries == 3              \* PublishTask.max_retries
min_publish_interval_minutes == 5     \* AppConfig.min_publish_interval_minutes
keep_days == 7                        \* _periodic_cleanup: cleanup_old_tasks(7)
publish_timeout_seconds == 300        \* AppConfig.publish_timeout_seconds
max_processes == 2                    \* ProcessManager(max_processes=2)

TaskIds == 1..MaxTasks
KeepMinutes == keep_days * 24 * 60
TimeSteps == {min_publish_interval_minutes, KeepMinutes}
NoTime == 0 - 1

VARIABLES
  tasks,            \* TaskStorage._tasks: the list of PublishTask records
  is_running,       \* SimpleScheduler.is_running
  executing_tasks,  \* SimpleScheduler.executing_tasks (the execution guard)
  workers,          \* per task id: worker threads started and not yet returned
  tick_queue,       \* entries of all_ready_tasks the tick's loop has not visited
  next_id,          \* number of tasks created so far
  now,              \* datetime.now(), in minutes
  clock_steps,      \* times the clock has advanced (bounds the model)
  last_success,     \* history: time of the latest mark_completed, or NoTime
  tick_dispatched,  \* history: tasks the current tick has moved to running
  attempted,        \* history: ids a worker thread was ever started for
  \* utils/operation_guard.py
  active_operations,   \* OperationGuard.active_operations
  operation_timers,    \* keys of OperationGuard.operation_timers (armed timers)
  call_stack,          \* operation ids of the guarded functions in
                       \* progress (nested event loops), innermost last
  \* core/account_tester.py
  instance_count,          \* AccountTester._instance_count
  active_tester_instance,  \* AccountTester._active_tester_instance, 0 for None
  tester_pc,               \* per instance id: where its test_account stands
  tester_browser,          \* per instance id: playwright/context/page are set
  \* core/process_manager.py
  active_processes,    \* keys of ProcessManager.active_processes / process_data
  pending_tasks,       \* ProcessManager.pending_tasks
  os_running,          \* task ids whose QProcess is running
  submitted,           \* task ids ever passed to start_task (bounds the model)
  outcome_signals,     \* history: per task id, process_finished + process_failed
  created_processes    \* history: task ids whose QProcess was created and started
                       \* signals emitted

scheduler_vars ==
  <<tasks, is_running, executing_tasks, workers, tick_queue, next_id,
    now, clock_steps, last_success, tick_dispatched, attempted>>

guard_vars == <<active_operations, operation_timers, call_stack>>

tester_vars ==
  <<instance_count, active_tester_instance, tester_pc, tester_browser>>

process_vars ==
  <<active_processes, pending_tasks, os_running, submitted, outcome_signals,
    created_processes>>

\* the state of the components the scheduler's handlers never touch
component_vars == <<guard_vars, tester_vars, process_vars>>

vars == <<scheduler_vars, guard_vars, tester_vars, process_vars>>

\* operation ids of the guarded GUI handlers (main_window.py)
OperationIds == {"edit_task", "publish_immediately", "import_excel"}
TesterIds == 1..MaxTesters
ProcessIds == 1..MaxProcesses

\* ------------------------------------------------------------------------
\* core/models.py: PublishTask
\* ------------------------------------------------------------------------

\* PublishTask.create_new + __post_init__
create_new(id, publish_time, clock) ==
  [id |-> id, publish_time |-> publish_time, status |-> "pending",
   created_time |-> clock, updated_time |-> clock, result_message |-> "",
   retry_count |-> 0, max_retries |-> default_max_retries]

\* datetime.isoformat / datetime.fromisoformat: the text form of a time
isoformat(time) == <<"iso", time>>
fromisoformat(text) == text[2]

\* PublishTask.to_dict: asdict with the times as ISO text, the status as its value
to_dict(t) ==
  [id |-> t.id, publish_time |-> isoformat(t.publish_time),
   status |-> t.status, created_time |-> isoformat(t.created_time),
   updated_time |-> isoformat(t.updated_time),
   result_message |-> t.result_message, retry_count |-> t.retry_count,
   max_retries |-> t.max_retries]

\* PublishTask.__post_init__ on a record whose created_time is given
post_init(t, clock) == [t EXCEPT !.updated_time = clock]

\* PublishTask.from_dict: parse the times, then cls(**data) runs __post_init__
from_dict(data, clock) ==
  post_init([id |-> data.id,
             publish_time |-> fromisoformat(data.publish_time),
             status |-> data.status,
             created_time |-> fromisoformat(data.created_time),
             updated_time |-> fromisoformat(data.updated_time),
             result_message |-> data.result_message,
             retry_count |-> data.retry_count,
             max_retries |-> data.max_retries], clock)

\* is_ready_to_execute that forgets the publish time
is_ready_to_execute_ignores_time(t, clock) ==
  t.status = "pending"

is_ready_to_execute(t, clock) ==
  t.status = "pending" /\ t.publish_time <= clock

\* can_retry with the bound off by one
can_retry_off_by_one(t) ==
  t.status = "failed" /\ t.retry_count <= t.max_retries

\* can_retry that forgets the retry budget
can_retry_ignores_count(t) ==
  t.status = "failed"

can_retry(t) ==
  t.status = "failed" /\ t.retry_count < t.max_retries

\* mark_running that starts the retry budget afresh
mark_running_resets_retries(t, clock) ==
  [t EXCEPT !.status = "running", !.retry_count = 0, !.updated_time = clock]

mark_running(t, clock) ==
  [t EXCEPT !.status = "running", !.updated_time = clock]

mark_completed(t, message, clock) ==
  [t EXCEPT !.status = "completed", !.result_message = message,
            !.updated_time = clock]

\* mark_failed that also pushes the publish time back
mark_failed_reschedules(t, message, clock) ==
  [t EXCEPT !.status = "failed", !.result_message = message,
            !.retry_count = @ + 1, !.updated_time = clock,
            !.publish_time = clock + min_publish_interval_minutes]

mark_failed(t, message, clock) ==
  [t EXCEPT !.status = "failed", !.result_message = message,
            !.retry_count = @ + 1, !.updated_time = clock]

\* reset_for_retry that also clears the retry count
reset_for_retry_clears_count(t, clock) ==
  [t EXCEPT !.status = "pending", !.result_message = "None",
            !.retry_count = 0, !.updated_time = clock]

reset_for_retry(t, clock) ==
  [t EXCEPT !.status = "pending", !.result_message = "None",
            !.updated_time = clock]

\* ------------------------------------------------------------------------
\* core/storage.py: TaskStorage
\* ------------------------------------------------------------------------

\* index of the first record with this id, 0 when there is none
IndexOf(ts, id) ==
  IF \E i \in 1..Len(ts) : ts[i].id = id
  THEN CHOOSE i \in 1..Len(ts) :
         ts[i].id = id /\ \A j \in 1..(i - 1) : ts[j].id # id
  ELSE 0

get_task_by_id(ts, id) == IndexOf(ts, id)

add_task(ts, t) == Append(ts, t)

\* update_task that appends a record whose id is unknown
update_task_upsert(ts, t) ==
  LET i == IndexOf(ts, t.id)
  IN IF i = 0 THEN Append(ts, t) ELSE [ts EXCEPT ![i] = t]

update_task(ts, t) ==
  LET i == IndexOf(ts, t.id)
  IN IF i = 0 THEN ts ELSE [ts EXCEPT ![i] = t]

\* the bool update_task returns
update_task_returns(ts, t) == IndexOf(ts, t.id) # 0

\* delete_task with the filter inverted
delete_task_inverted(ts, id) ==
  LET Keep(t) == t.id = id IN SelectSeq(ts, Keep)

delete_task(ts, id) ==
  LET Keep(t) == t.id # id IN SelectSeq(ts, Keep)

\* the bool delete_task returns: len(self._tasks) < initial_count
delete_task_returns(ts, id) == Len(delete_task(ts, id)) < Len(ts)

\* get_ready_tasks that returns every pending task
get_ready_tasks_all_pending(ts, clock) ==
  LET Ready(t) == t.status = "pending" IN SelectSeq(ts, Ready)

get_ready_tasks(ts, clock) ==
  LET Ready(t) == is_ready_to_execute(t, clock) IN SelectSeq(ts, Ready)

get_failed_retry_tasks(ts) ==
  LET Retry(t) == can_retry(t) IN SelectSeq(ts, Retry)

\* cleanup_old_tasks that keeps by age alone
cleanup_old_tasks_by_age_only(ts, days, clock) ==
  LET cutoff_time == clock - days * 24 * 60
      Keep(t) == t.updated_time > cutoff_time
  IN SelectSeq(ts, Keep)

cleanup_old_tasks(ts, days, clock) ==
  LET cutoff_time == clock - days * 24 * 60
      Keep(t) == \/ t.status \in {"pending", "running"}
                 \/ t.updated_time > cutoff_time
  IN SelectSeq(ts, Keep)

\* ------------------------------------------------------------------------
\* core/scheduler.py: SimpleScheduler
\* ------------------------------------------------------------------------

\* updated_time of the most recently completed task (the head of the sorted list)
LastCompletedTime(ts) ==
  LET done == {i \in 1..Len(ts) : ts[i].status = "completed"}
  IN CHOOSE u \in {ts[i].updated_time : i \in done} :
       \A i \in done : ts[i].updated_time <= u

\* _check_publish_interval refusing an elapsed time equal to the minimum
check_publish_interval_strict(ts, clock) ==
  IF \A i \in 1..Len(ts) : ts[i].status # "completed"
  THEN TRUE
  ELSE ~(clock - LastCompletedTime(ts) <= min_publish_interval_minutes)

check_publish_interval(ts, clock) ==
  IF \A i \in 1..Len(ts) : ts[i].status # "completed"
  THEN TRUE
  ELSE ~(clock - LastCompletedTime(ts) < min_publish_interval_minutes)

\* _handle_task_error: the new store and guard
handle_task_error(ts, ex, task_id, error_message, clock) ==
  LET i == get_task_by_id(ts, task_id)
  IN IF i = 0
     THEN [tasks |-> ts, executing |-> ex \ {task_id}]
     ELSE [tasks |-> update_task(ts, mark_failed(ts[i], error_message, clock)),
           executing |-> ex \ {task_id}]

\* _handle_task_success: the new store and guard
handle_task_success(ts, ex, task_id, success, clock) ==
  LET i == get_task_by_id(ts, task_id)
  IN IF i = 0
     THEN [tasks |-> ts, executing |-> ex]
     ELSE IF success
          THEN [tasks |-> update_task(ts, mark_completed(ts[i], "ok", clock)),
                executing |-> ex \ {task_id}]
          ELSE handle_task_error(ts, ex, task_id, "error", clock)

\* _execute_task_async without its "already executing" check
execute_task_async_unguarded(ts, ex, wk, task_id, clock) ==
  LET i == get_task_by_id(ts, task_id)
  IN [tasks |-> IF i = 0 THEN ts
                ELSE update_task(ts, mark_running(ts[i], clock)),
      executing |-> ex \cup {task_id},
      workers |-> [wk EXCEPT ![task_id] = @ + 1],
      started |-> TRUE]

\* _execute_task_async up to thread.start(): the new store, guard and workers
execute_task_async(ts, ex, wk, task_id, clock) ==
  IF Cardinality(ex) > 0
  THEN LET r == handle_task_error(ts, ex, task_id, "busy", clock)
       IN [tasks |-> r.tasks, executing |-> r.executing, workers |-> wk,
           started |-> FALSE]
  ELSE LET i == get_task_by_id(ts, task_id)
       IN [tasks |-> IF i = 0 THEN ts
                     ELSE update_task(ts, mark_running(ts[i], clock)),
           executing |-> ex \cup {task_id},
           workers |-> [wk EXCEPT ![task_id] = @ + 1],
           started |-> TRUE]

\* ids of ready_tasks + retry_tasks, in list order
AllReadyIds(ts, clock) ==
  LET all == get_ready_tasks(ts, clock) \o get_failed_retry_tasks(ts)
  IN [k \in 1..Len(all) |-> all[k].id]

\* the loop body with the interval test inverted
loop_body_interval_inverted(ts, ex, wk, task_id, clock) ==
  IF task_id \in ex
  THEN [tasks |-> ts, executing |-> ex, workers |-> wk, started |-> FALSE]
  ELSE IF check_publish_interval(ts, clock)
       THEN [tasks |-> ts, executing |-> ex, workers |-> wk, started |-> FALSE]
       ELSE execute_task_async(ts, ex, wk, task_id, clock)

\* one pass of the body of "for task in all_ready_tasks"
loop_body(ts, ex, wk, task_id, clock) ==
  IF task_id \in ex
  THEN [tasks |-> ts, executing |-> ex, workers |-> wk, started |-> FALSE]
  ELSE IF ~check_publish_interval(ts, clock)
       THEN [tasks |-> ts, executing |-> ex, workers |-> wk, started |-> FALSE]
       ELSE execute_task_async(ts, ex, wk, task_id, clock)

MainIdle == tick_queue = <<>>

\* OperationGuard.__init__
OperationGuardInit ==
  /\ active_operations = {}
  /\ operation_timers = {}
  /\ call_stack = <<>>

\* AccountTester class attributes
AccountTesterInit ==
  /\ instance_count = 0
  /\ active_tester_instance = 0
  /\ tester_pc = [t \in TesterIds |-> "none"]
  /\ tester_browser = [t \in TesterIds |-> FALSE]

\* ProcessManager.__init__
ProcessManagerInit ==
  /\ active_processes = {}
  /\ pending_tasks = <<>>
  /\ os_running = {}
  /\ submitted = {}
  /\ outcome_signals = [p \in ProcessIds |-> 0]
  /\ created_processes = {}

Init ==
  /\ tasks = <<>>
  /\ is_running = FALSE
  /\ executing_tasks = {}
  /\ workers = [id \in TaskIds |-> 0]
  /\ tick_queue = <<>>
  /\ next_id = 0
  /\ now = 0
  /\ clock_steps = 0
  /\ last_success = NoTime
  /\ tick_dispatched = 0
  /\ attempted = {}
  /\ OperationGuardInit
  /\ AccountTesterInit
  /\ ProcessManagerInit

\* check_and_execute_tasks without the is_running test
check_and_execute_tasks_ignores_running(running, ts, clock) ==
  AllReadyIds(ts, clock)

\* check_and_execute_tasks up to the for-loop: what it leaves to iterate over
check_and_execute_tasks(running, ts, clock) ==
  IF ~running THEN <<>> ELSE AllReadyIds(ts, clock)

\* start(): is_running = True, timer started, one immediate tick
Start ==
  /\ MainIdle
  /\ ~is_running
  /\ is_running' = TRUE
  /\ tick_queue' = check_and_execute_tasks(TRUE, tasks, now)
  /\ tick_dispatched' = 0
  /\ UNCHANGED <<component_vars, tasks, executing_tasks, workers, next_id, now, clock_steps,
                 last_success, attempted>>

\* stop(): is_running = False, timer stopped, the guard cleared
Stop ==
  /\ MainIdle
  /\ is_running
  /\ is_running' = FALSE
  /\ executing_tasks' = {}
  /\ UNCHANGED <<component_vars, tasks, workers, tick_queue, next_id, now, clock_steps,
                 last_success, tick_dispatched, attempted>>

\* the timer fires (or the GUI's publish-all calls) check_and_execute_tasks
TickBegin ==
  /\ MainIdle
  /\ tick_queue' = check_and_execute_tasks(is_running, tasks, now)
  /\ tick_dispatched' = 0
  /\ UNCHANGED <<component_vars, tasks, is_running, executing_tasks, workers, next_id, now,
                 clock_steps, last_success, attempted>>

\* one iteration of the tick's for-loop
TickStep ==
  /\ tick_queue # <<>>
  /\ LET r == loop_body(tasks, executing_tasks, workers, Head(tick_queue), now)
     IN /\ tasks' = r.tasks
        /\ executing_tasks' = r.executing
        /\ workers' = r.workers
        /\ tick_dispatched' = IF r.started THEN tick_dispatched + 1
                              ELSE tick_dispatched
        /\ attempted' = IF r.started THEN attempted \cup {Head(tick_queue)}
                        ELSE attempted
  /\ tick_queue' = Tail(tick_queue)
  /\ UNCHANGED <<component_vars, is_running, next_id, now, clock_steps, last_success>>

\* add_task from the GUI form or the importer
AddTask(publish_time) ==
  /\ MainIdle
  /\ next_id < MaxTasks
  /\ next_id' = next_id + 1
  /\ tasks' = add_task(tasks, create_new(next_id + 1, publish_time, now))
  /\ UNCHANGED <<component_vars, is_running, executing_tasks, workers, tick_queue, now,
                 clock_steps, last_success, tick_dispatched, attempted>>

\* publish_immediately: a task due now, added, then one tick
PublishImmediately ==
  /\ MainIdle
  /\ next_id < MaxTasks
  /\ next_id' = next_id + 1
  /\ LET ts == add_task(tasks, create_new(next_id + 1, now, now))
     IN /\ tasks' = ts
        /\ tick_queue' = check_and_execute_tasks(is_running, ts, now)
  /\ tick_dispatched' = 0
  /\ UNCHANGED <<component_vars, is_running, executing_tasks, workers, now, clock_steps,
                 last_success, attempted>>

\* delete_task from the GUI
DeleteTask(task_id) ==
  /\ MainIdle
  /\ get_task_by_id(tasks, task_id) # 0
  /\ tasks' = delete_task(tasks, task_id)
  /\ UNCHANGED <<component_vars, is_running, executing_tasks, workers, tick_queue, next_id,
                 now, clock_steps, last_success, tick_dispatched, attempted>>

\* retry_task that resets whatever task it finds
retry_task_any_status(ts, task_id, clock) ==
  LET i == get_task_by_id(ts, task_id)
  IN IF i # 0
     THEN update_task(ts, reset_for_retry(ts[i], clock))
     ELSE ts

\* MainWindow.retry_task: the store after the manual reset-for-retry
retry_task(ts, task_id, clock) ==
  LET i == get_task_by_id(ts, task_id)
  IN IF i # 0 /\ can_retry(ts[i])
     THEN update_task(ts, reset_for_retry(ts[i], clock))
     ELSE ts

\* the user presses "retry" on a stored task
RetryTask(task_id) ==
  /\ MainIdle
  /\ get_task_by_id(tasks, task_id) # 0
  /\ tasks' = retry_task(tasks, task_id, now)
  /\ UNCHANGED <<component_vars, is_running, executing_tasks, workers, tick_queue, next_id,
                 now, clock_steps, last_success, tick_dispatched, attempted>>

\* TaskDetailTable.edit_publish_time + MainWindow.on_task_time_updated: the
\* store after the inline edit of a task's publish time
on_task_time_updated(ts, task_id, new_time, clock) ==
  LET i == get_task_by_id(ts, task_id)
  IN IF i = 0 THEN ts
     ELSE update_task(ts, [ts[i] EXCEPT !.publish_time = new_time,
                                         !.updated_time = clock])

\* the user double-clicks the publish-time cell of a stored task and accepts
\* a time; the time picker's minimum is the current time
EditPublishTime(task_id, new_time) ==
  /\ MainIdle
  /\ get_task_by_id(tasks, task_id) # 0
  /\ new_time >= now
  /\ tasks' = on_task_time_updated(tasks, task_id, new_time, now)
  /\ UNCHANGED <<component_vars, is_running, executing_tasks, workers, tick_queue, next_id,
                 now, clock_steps, last_success, tick_dispatched, attempted>>

\* MainWindow.on_edit_task + TaskEditDialog save + on_task_edited: the store
\* after the edit dialog was opened on a task and saved with a new time
on_edit_task(ts, task_id, new_time, clock) ==
  LET i == get_task_by_id(ts, task_id)
  IN IF i = 0 THEN ts
     ELSE IF ts[i].status \notin {"pending", "failed"} THEN ts
     ELSE IF new_time <= clock THEN ts
     ELSE update_task(ts, [ts[i] EXCEPT !.publish_time = new_time,
                                         !.updated_time = clock])

\* the user edits a stored task in the edit dialog
EditTask(task_id, new_time) ==
  /\ MainIdle
  /\ get_task_by_id(tasks, task_id) # 0
  /\ tasks' = on_edit_task(tasks, task_id, new_time, now)
  /\ UNCHANGED <<component_vars, is_running, executing_tasks, workers, tick_queue, next_id,
                 now, clock_steps, last_success, tick_dispatched, attempted>>

\* what execute_task_immediately returns once it has called _execute_task_async
Dispatched(r) ==
  [tasks |-> r.tasks, executing |-> r.executing, workers |-> r.workers,
   started |-> r.started, returned |-> TRUE]

\* execute_task_immediately without the status test
execute_task_immediately_no_status_check(running, ts, ex, wk, task_id, clock) ==
  LET same == [tasks |-> ts, executing |-> ex, workers |-> wk,
               started |-> FALSE, returned |-> FALSE]
      i == get_task_by_id(ts, task_id)
  IN IF ~running THEN same
     ELSE IF ex # {} THEN same
     ELSE IF i = 0 THEN same
     ELSE IF task_id \in ex THEN same
     ELSE Dispatched(execute_task_async(ts, ex, wk, task_id, clock))

\* execute_task_immediately that also consults the interval policy
execute_task_immediately_with_interval(running, ts, ex, wk, task_id, clock) ==
  LET same == [tasks |-> ts, executing |-> ex, workers |-> wk,
               started |-> FALSE, returned |-> FALSE]
      i == get_task_by_id(ts, task_id)
  IN IF ~running THEN same
     ELSE IF ex # {} THEN same
     ELSE IF i = 0 THEN same
     ELSE IF ts[i].status # "pending" THEN same
     ELSE IF task_id \in ex THEN same
     ELSE IF ~check_publish_interval(ts, clock) THEN same
     ELSE Dispatched(execute_task_async(ts, ex, wk, task_id, clock))

\* execute_task_immediately: its return value and what it does to store,
\* guard and workers
execute_task_immediately(running, ts, ex, wk, task_id, clock) ==
  LET same == [tasks |-> ts, executing |-> ex, workers |-> wk,
               started |-> FALSE, returned |-> FALSE]
      i == get_task_by_id(ts, task_id)
  IN IF ~running THEN same
     ELSE IF ex # {} THEN same
     ELSE IF i = 0 THEN same
     ELSE IF ts[i].status # "pending" THEN same
     ELSE IF task_id \in ex THEN same
     ELSE Dispatched(execute_task_async(ts, ex, wk, task_id, clock))

ExecuteNow(task_id) ==
  /\ MainIdle
  /\ LET r == execute_task_immediately(is_running, tasks, executing_tasks,
                                       workers, task_id, now)
     IN /\ tasks' = r.tasks
        /\ executing_tasks' = r.executing
        /\ workers' = r.workers
        /\ attempted' = IF r.started THEN attempted \cup {task_id}
                        ELSE attempted
  /\ UNCHANGED <<component_vars, is_running, tick_queue, next_id, now, clock_steps,
                 last_success, tick_dispatched>>

\* _periodic_cleanup on the cleanup timer
PeriodicCleanup ==
  /\ MainIdle
  /\ tasks' = cleanup_old_tasks(tasks, keep_days, now)
  /\ UNCHANGED <<component_vars, is_running, executing_tasks, workers, tick_queue, next_id,
                 now, clock_steps, last_success, tick_dispatched, attempted>>

\* run_async_task: the publisher returned success
WorkerSuccess(task_id) ==
  /\ workers[task_id] > 0
  /\ workers' = [workers EXCEPT ![task_id] = @ - 1]
  /\ LET r == handle_task_success(tasks, executing_tasks, task_id, TRUE, now)
     IN /\ tasks' = r.tasks
        /\ executing_tasks' = r.executing
  /\ last_success' = IF get_task_by_id(tasks, task_id) # 0 THEN now
                     ELSE last_success
  /\ UNCHANGED <<component_vars, is_running, tick_queue, next_id, now, clock_steps,
                 tick_dispatched, attempted>>

\* run_async_task: the publisher returned a failure or raised
WorkerError(task_id) ==
  /\ workers[task_id] > 0
  /\ workers' = [workers EXCEPT ![task_id] = @ - 1]
  /\ LET r == handle_task_error(tasks, executing_tasks, task_id, "error", now)
     IN /\ tasks' = r.tasks
        /\ executing_tasks' = r.executing
  /\ UNCHANGED <<component_vars, is_running, tick_queue, next_id, now, clock_steps,
                 last_success, tick_dispatched, attempted>>

\* time passes
AdvanceTime(d) ==
  /\ MainIdle
  /\ clock_steps < MaxClockSteps
  /\ clock_steps' = clock_steps + 1
  /\ now' = now + d
  /\ UNCHANGED <<component_vars, tasks, is_running, executing_tasks, workers, tick_queue,
                 next_id, last_success, tick_dispatched, attempted>>

Next ==
  \/ Start
  \/ Stop
  \/ TickBegin
  \/ TickStep
  \/ \E pt \in {now, now + min_publish_interval_minutes} : AddTask(pt)
  \/ PublishImmediately
  \/ \E id \in TaskIds : DeleteTask(id)
  \/ \E id \in TaskIds : RetryTask(id)
  \/ \E id \in TaskIds, nt \in {now, now + min_publish_interval_minutes} :
       EditPublishTime(id, nt)
  \/ \E id \in TaskIds : EditTask(id, now + min_publish_interval_minutes)
  \/ \E id \in TaskIds : ExecuteNow(id)
  \/ PeriodicCleanup
  \/ \E id \in TaskIds : WorkerSuccess(id)
  \/ \E id \in TaskIds : WorkerError(id)
  \/ \E d \in TimeSteps : AdvanceTime(d)

Spec == Init /\ [][Next]_vars

\* ------------------------------------------------------------------------
\* utils/operation_guard.py: OperationGuard and the operation_guard decorator
\* ------------------------------------------------------------------------

\* OperationGuard.start_operation: the lock set, the timers, the bool returned
start_operation(active, timers, operation_id, timeout_positive) ==
  IF operation_id \in active
  THEN [active |-> active, timers |-> timers, ok |-> FALSE]
  ELSE [active |-> active \cup {operation_id},
        timers |-> IF timeout_positive THEN timers \cup {operation_id}
                   ELSE timers,
        ok |-> TRUE]

\* OperationGuard.end_operation
end_operation(active, timers, operation_id) ==
  IF operation_id \in active
  THEN [active |-> active \ {operation_id},
        timers |-> timers \ {operation_id}]
  ELSE [active |-> active, timers |-> timers]

\* OperationGuard._timeout_cleanup
timeout_cleanup(active, timers, operation_id) ==
  IF operation_id \in active
  THEN end_operation(active, timers, operation_id)
  ELSE [active |-> active, timers |-> timers]

\* the decorator's wrapper up to the call of the wrapped function: refused
\* (returns None) when the operation is active, else the lock is taken and
\* the function starts to run
GuardedCall(operation_id) ==
  /\ Len(call_stack) < MaxNesting
  /\ IF operation_id \in active_operations
     THEN UNCHANGED guard_vars
     ELSE LET r == start_operation(active_operations, operation_timers,
                                   operation_id, TRUE)
          IN /\ r.ok
             /\ active_operations' = r.active
             /\ operation_timers' = r.timers
             /\ call_stack' = Append(call_stack, operation_id)
  /\ UNCHANGED <<scheduler_vars, tester_vars, process_vars>>

\* the innermost guarded function returns or raises: the wrapper's finally
GuardedReturn ==
  /\ call_stack # <<>>
  /\ LET operation_id == call_stack[Len(call_stack)]
         r == end_operation(active_operations, operation_timers, operation_id)
     IN /\ active_operations' = r.active
        /\ operation_timers' = r.timers
  /\ call_stack' = SubSeq(call_stack, 1, Len(call_stack) - 1)
  /\ UNCHANGED <<scheduler_vars, tester_vars, process_vars>>

\* the single-shot timer of an operation fires (in whatever event loop runs)
TimeoutFires(operation_id) ==
  /\ operation_id \in operation_timers
  /\ LET r == timeout_cleanup(active_operations, operation_timers, operation_id)
     IN /\ active_operations' = r.active
        /\ operation_timers' = r.timers
  /\ UNCHANGED <<call_stack, scheduler_vars, tester_vars, process_vars>>

OperationGuardNext ==
  \/ \E op \in OperationIds : GuardedCall(op)
  \/ GuardedReturn
  \/ \E op \in OperationIds : TimeoutFires(op)

OperationGuardSpec == Init /\ [][OperationGuardNext]_vars

\* ------------------------------------------------------------------------
\* core/account_tester.py: AccountTester
\* ------------------------------------------------------------------------

\* the slot check at the head of _setup_browser: the new slot value and
\* whether the tester was refused
acquire_slot(slot, instance_id) ==
  IF slot # 0
  THEN [slot |-> slot, refused |-> TRUE]
  ELSE [slot |-> instance_id, refused |-> FALSE]

\* the end of _cleanup: the slot is given back by its holder, unless closing
\* the browser raised before that point
release_slot(slot, instance_id, close_raised) ==
  IF close_raised THEN slot
  ELSE IF slot = instance_id THEN 0
  ELSE slot

\* AccountTester.__init__
NewTester ==
  /\ instance_count < MaxTesters
  /\ instance_count' = instance_count + 1
  /\ tester_pc' = [tester_pc EXCEPT ![instance_count + 1] = "created"]
  /\ UNCHANGED <<active_tester_instance, tester_browser, scheduler_vars,
                 guard_vars, process_vars>>

\* test_account up to the slot check of _setup_browser; a refused tester
\* raises and runs its finally (_cleanup with nothing to close) at once
SetupBrowser(t) ==
  /\ tester_pc[t] = "created"
  /\ LET r == acquire_slot(active_tester_instance, t)
     IN IF r.refused
        THEN /\ active_tester_instance' =
                  release_slot(active_tester_instance, t, FALSE)
             /\ tester_pc' = [tester_pc EXCEPT ![t] = "returned"]
        ELSE /\ active_tester_instance' = r.slot
             /\ tester_pc' = [tester_pc EXCEPT ![t] = "setup"]
  /\ UNCHANGED <<instance_count, tester_browser, scheduler_vars, guard_vars,
                 process_vars>>

\* the rest of _setup_browser: playwright is started and the browser is
\* launched, or one of the two raises
LaunchBrowser(t, playwright_started, launched) ==
  /\ tester_pc[t] = "setup"
  /\ tester_browser' = [tester_browser EXCEPT ![t] = playwright_started]
  /\ tester_pc' = [tester_pc EXCEPT
                     ![t] = IF playwright_started /\ launched THEN "testing"
                            ELSE "closing"]
  /\ UNCHANGED <<instance_count, active_tester_instance, scheduler_vars,
                 guard_vars, process_vars>>

\* the body of test_account ends, with a result or with an exception
TestEnds(t) ==
  /\ tester_pc[t] = "testing"
  /\ tester_pc' = [tester_pc EXCEPT ![t] = "closing"]
  /\ UNCHANGED <<instance_count, active_tester_instance, tester_browser,
                 scheduler_vars, guard_vars, process_vars>>

\* _cleanup in the finally of test_account; closing can only raise when
\* there is something to close
Cleanup(t, close_raised) ==
  /\ tester_pc[t] = "closing"
  /\ close_raised => tester_browser[t]
  /\ active_tester_instance' =
       release_slot(active_tester_instance, t, close_raised)
  /\ tester_browser' = [tester_browser EXCEPT
                          ![t] = IF close_raised THEN @ ELSE FALSE]
  /\ tester_pc' = [tester_pc EXCEPT ![t] = "returned"]
  /\ UNCHANGED <<instance_count, scheduler_vars, guard_vars, process_vars>>

AccountTesterNext ==
  \/ NewTester
  \/ \E t \in TesterIds : SetupBrowser(t)
  \/ \E t \in TesterIds, p, l \in BOOLEAN : LaunchBrowser(t, p, l)
  \/ \E t \in TesterIds : TestEnds(t)
  \/ \E t \in TesterIds, c \in BOOLEAN : Cleanup(t, c)

AccountTesterSpec == Init /\ [][AccountTesterNext]_vars

\* ------------------------------------------------------------------------
\* core/process_manager.py: ProcessManager
\* The manager's state is handled as one record st with the fields active
\* (keys of active_processes / process_data), pending (pending_tasks), os
\* (QProcesses that are running), signals (outcome signals emitted) and
\* created (task ids a QProcess was created for).
\* ------------------------------------------------------------------------

can_start_new_process(st) == Cardinality(st.active) < max_processes

\* _cleanup_process: timer stopped, the process dropped from both dicts,
\* killed if still running and deleted
cleanup_process(st, task_id) ==
  [st EXCEPT !.active = @ \ {task_id}, !.os = @ \ {task_id}]

\* process_finished / process_failed is emitted for the task id
emit_outcome(st, task_id) ==
  [st EXCEPT !.signals[task_id] = @ + 1]

RECURSIVE start_task(_, _, _), process_pending_tasks(_, _),
          on_process_error(_, _, _)

\* _process_pending_tasks: start queued tasks while the pool has room
process_pending_tasks(st, launch_ok) ==
  IF st.pending # <<>> /\ can_start_new_process(st)
  THEN LET task_id == Head(st.pending)
           popped == [st EXCEPT !.pending = Tail(@)]
           r == start_task(popped, task_id, launch_ok)
       IN IF r.returned THEN process_pending_tasks(r.st, launch_ok)
          ELSE r.st
  ELSE st

\* _on_process_error: emits process_failed whether or not the process is
\* still known, then cleans up and serves the queue
on_process_error(st, task_id, launch_ok) ==
  process_pending_tasks(cleanup_process(emit_outcome(st, task_id), task_id),
                        launch_ok)

\* _on_process_finished: nothing when the process is no longer known, else
\* one outcome signal, clean-up, and the queue is served
on_process_finished(st, task_id, launch_ok) ==
  IF task_id \notin st.active THEN st
  ELSE process_pending_tasks(
         cleanup_process(emit_outcome(st, task_id), task_id), launch_ok)

\* start_task: queued when the pool is full; else the process is created and
\* started, and a failed start is reported through errorOccurred
start_task(st, task_id, launch_ok) ==
  IF task_id \in st.active THEN [st |-> st, returned |-> FALSE]
  ELSE IF ~can_start_new_process(st)
       THEN [st |-> [st EXCEPT !.pending = Append(@, task_id)],
             returned |-> TRUE]
       ELSE LET created == [st EXCEPT !.active = @ \cup {task_id},
                                      !.created = @ \cup {task_id}]
            IN IF launch_ok
               THEN [st |-> [created EXCEPT !.os = @ \cup {task_id}],
                     returned |-> TRUE]
               ELSE [st |-> cleanup_process(
                              on_process_error(created, task_id, launch_ok),
                              task_id),
                     returned |-> FALSE]

\* the signals a QProcess emits when it ends: errorOccurred(Crashed) and then
\* finished for a crash or a kill, finished alone for an exit
process_ends(st, task_id, crashed, launch_ok) ==
  LET gone == [st EXCEPT !.os = @ \ {task_id}]
  IN IF crashed
     THEN on_process_finished(on_process_error(gone, task_id, launch_ok),
                              task_id, launch_ok)
     ELSE on_process_finished(gone, task_id, launch_ok)

\* _kill_process: terminate/kill and wait (the process's own signals are
\* delivered inside waitForFinished when it dies in time), then emit
\* process_failed and clean up
kill_process(st, task_id, dies, crashed, launch_ok) ==
  LET waited == IF task_id \in st.os /\ dies
                THEN process_ends(st, task_id, crashed, launch_ok)
                ELSE st
  IN cleanup_process(emit_outcome(waited, task_id), task_id)

RECURSIVE kill_each(_, _, _, _, _)
\* the loop of kill_all_processes over the processes known at its start
kill_each(st, ids, dies, crashed, launch_ok) ==
  IF ids = {} THEN st
  ELSE LET task_id == CHOOSE x \in ids : \A y \in ids : x <= y
       IN kill_each(kill_process(st, task_id, dies, crashed, launch_ok),
                    ids \ {task_id}, dies, crashed, launch_ok)

\* kill_all_processes
kill_all_processes(st, dies, crashed, launch_ok) ==
  [kill_each(st, st.active, dies, crashed, launch_ok) EXCEPT !.pending = <<>>]

ManagerState ==
  [active |-> active_processes, pending |-> pending_tasks, os |-> os_running,
   signals |-> outcome_signals, created |-> created_processes]

BecomesManagerState(st) ==
  /\ active_processes' = st.active
  /\ pending_tasks' = st.pending
  /\ os_running' = st.os
  /\ outcome_signals' = st.signals
  /\ created_processes' = st.created

\* a task is handed to start_task
StartTask(task_id, launch_ok) ==
  /\ task_id \notin submitted
  /\ submitted' = submitted \cup {task_id}
  /\ BecomesManagerState(start_task(ManagerState, task_id, launch_ok).st)
  /\ UNCHANGED <<scheduler_vars, guard_vars, tester_vars>>

\* a running process exits or crashes by itself
ProcessEnds(task_id, crashed, launch_ok) ==
  /\ task_id \in os_running
  /\ BecomesManagerState(process_ends(ManagerState, task_id, crashed, launch_ok))
  /\ UNCHANGED <<submitted, scheduler_vars, guard_vars, tester_vars>>

\* the 5-minute timeout timer of a process fires
ProcessTimeout(task_id, dies, crashed, launch_ok) ==
  /\ task_id \in active_processes
  /\ BecomesManagerState(
       kill_process(ManagerState, task_id, dies, crashed, launch_ok))
  /\ UNCHANGED <<submitted, scheduler_vars, guard_vars, tester_vars>>

\* kill_all_processes, as called by stop() and on exit
KillAllProcesses(dies, crashed, launch_ok) ==
  /\ BecomesManagerState(
       kill_all_processes(ManagerState, dies, crashed, launch_ok))
  /\ UNCHANGED <<submitted, scheduler_vars, guard_vars, tester_vars>>

ProcessManagerNext ==
  \/ \E id \in ProcessIds, ok \in BOOLEAN : StartTask(id, ok)
  \/ \E id \in ProcessIds, c, ok \in BOOLEAN : ProcessEnds(id, c, ok)
  \/ \E id \in ProcessIds, d, c, ok \in BOOLEAN : ProcessTimeout(id, d, c, ok)
  \/ \E d, c, ok \in BOOLEAN : KillAllProcesses(d, c, ok)

ProcessManagerSpec == Init /\ [][ProcessManagerNext]_vars

\* ------------------------------------------------------------------------
\* Properties
\* ------------------------------------------------------------------------

Stored(id) == get_task_by_id(tasks, id) # 0
TaskOf(id) == tasks[get_task_by_id(tasks, id)]
StoredIds == {tasks[i].id : i \in 1..Len(tasks)}
InFlight == {id \in TaskIds : workers[id] > 0}
TickRunning == tick_queue # <<>>

\* C1: at most one publisher attempt (a worker thread that has been started
\* and has not yet run its completion callback) is in flight at any moment.
C1_AtMostOneAttemptInFlight ==
  /\ Cardinality(InFlight) <= 1
  /\ \A id \in TaskIds : workers[id] <= 1

\* C2: the guard set executing_tasks never holds more than one task id.
C2_GuardHoldsAtMostOne ==
  Cardinality(executing_tasks) <= 1

\* C2 witness: a dispatch was refused ("busy") while another task holds the guard.
C2_Witness ==
  /\ Cardinality(executing_tasks) = 1
  /\ \E id \in StoredIds :
       /\ id \notin executing_tasks
       /\ TaskOf(id).result_message = "busy"

\* C3: every stored task whose status is running has its id in the guard,
\* held by exactly one in-flight attempt.
C3_RunningImpliesGuardHeld ==
  \A id \in StoredIds :
    TaskOf(id).status = "running" =>
      (id \in executing_tasks /\ workers[id] = 1)

\* C4: a guard entry whose worker is still running is removed only by that
\* worker's own completion callback.
C4_GuardClearedOnlyByOwner ==
  [][\A id \in TaskIds :
       (id \in executing_tasks /\ workers[id] > 0 /\ id \notin executing_tasks')
         => workers'[id] < workers[id]]_vars

\* C5: for every stored task, retry_count <= max_retries.
C5_RetryBound ==
  \A i \in 1..Len(tasks) : tasks[i].retry_count <= tasks[i].max_retries

\* C5 witness: a task has used its whole retry budget.
C5_Witness ==
  \E i \in 1..Len(tasks) :
    /\ tasks[i].status = "failed"
    /\ tasks[i].retry_count = tasks[i].max_retries

\* C6: a tick never moves a failed task with retry_count >= max_retries to
\* running.
C6_TerminalFailedNotRedispatched ==
  [][\A id \in StoredIds :
       (/\ TickRunning
        /\ tick_queue' = Tail(tick_queue)
        /\ TaskOf(id).status = "failed"
        /\ TaskOf(id).retry_count >= TaskOf(id).max_retries
        /\ get_task_by_id(tasks', id) # 0)
         => tasks'[get_task_by_id(tasks', id)].status # "running"]_vars

\* C6 witness: a tick is iterating with the guard free and the interval
\* satisfied while a terminal failed task sits in the store, left out of its list.
C6_Witness ==
  /\ TickRunning
  /\ executing_tasks = {}
  /\ check_publish_interval(tasks, now)
  /\ \E id \in StoredIds :
       /\ TaskOf(id).status = "failed"
       /\ TaskOf(id).retry_count >= TaskOf(id).max_retries
       /\ \A k \in 1..Len(tick_queue) : tick_queue[k] # id

\* C7: once a task has completed at time T, no tick dispatches a task before
\* T + min_publish_interval_minutes.
C7_IntervalEnforcedOverHistory ==
  [][(TickRunning /\ tick_dispatched' > tick_dispatched)
       => (last_success = NoTime
           \/ now >= last_success + min_publish_interval_minutes)]_vars

\* C8: the completion callback of an attempt whose tracking was dropped (its
\* task id is no longer in the guard) leaves the task's record unchanged.
C8_StaleCallbackIgnored ==
  [][\A id \in StoredIds :
       (workers[id] > 0 /\ workers'[id] < workers[id]
        /\ id \notin executing_tasks)
         => (get_task_by_id(tasks', id) # 0
             /\ tasks'[get_task_by_id(tasks', id)] = TaskOf(id))]_vars

\* C9: a single tick moves at most one task to running.
C9_AtMostOneDispatchPerTick ==
  tick_dispatched <= 1

\* C10: when the tick reaches a task while another attempt holds the guard,
\* it leaves that task's record (status, retry_count, result_message) as it was.
C10_ContentionLeavesTaskUnchanged ==
  [][(/\ TickRunning
      /\ tick_queue' = Tail(tick_queue)
      /\ executing_tasks # {}
      /\ Head(tick_queue) \notin executing_tasks
      /\ Stored(Head(tick_queue)))
       => (/\ get_task_by_id(tasks', Head(tick_queue)) # 0
           /\ LET old == TaskOf(Head(tick_queue))
                  new == tasks'[get_task_by_id(tasks', Head(tick_queue))]
              IN /\ new.status = old.status
                 /\ new.retry_count = old.retry_count
                 /\ new.result_message = old.result_message)]_vars

NextTaskOf(id) == tasks'[get_task_by_id(tasks', id)]
StoredNext(id) == get_task_by_id(tasks', id) # 0

\* C11: every pending task whose publish time has passed is eventually handed
\* to the publisher; waiting behind other due tasks never leaves it terminal
\* (failed with its retry budget used up, a state no tick and no manual retry
\* leaves) without a worker ever having been started for it.
C11_DueTaskNotTerminalWithoutAttempt ==
  \A id \in StoredIds :
    (TaskOf(id).status = "failed"
     /\ TaskOf(id).retry_count >= TaskOf(id).max_retries)
      => id \in attempted

\* C12: a task does not stay running past publish_timeout_seconds: every
\* running task was marked running at most the timeout ago.
C12_RunningBoundedByTimeout ==
  \A id \in StoredIds :
    TaskOf(id).status = "running"
      => (now - TaskOf(id).updated_time) * 60 <= publish_timeout_seconds

\* C13: once publish_timeout_seconds have passed since a task's dispatch its
\* guard entry is gone: every stored task held in the guard was dispatched
\* at most the timeout ago.
C13_GuardReleasedAfterTimeout ==
  \A id \in executing_tasks :
    Stored(id)
      => (now - TaskOf(id).updated_time) * 60 <= publish_timeout_seconds

\* C14: a failed task with retry_count < max_retries is eventually dispatched
\* again by a tick: while it waits as failed it stays eligible for retry, so
\* no step of the tick takes it from failed-with-retries-left to failed with
\* the retries used up.
C14_RetryEligibleStaysEligibleUntilDispatched ==
  [][\A id \in StoredIds :
       (/\ can_retry(TaskOf(id))
        /\ TickRunning
        /\ tick_queue' = Tail(tick_queue)
        /\ StoredNext(id)
        /\ NextTaskOf(id).status = "failed")
         => can_retry(NextTaskOf(id))]_vars

\* no stored task is pending with its publish time passed, none is failed
\* with retries left
NoneDue ==
  \A i \in 1..Len(tasks) :
    /\ ~(tasks[i].status = "pending" /\ tasks[i].publish_time <= now)
    /\ ~(tasks[i].status = "failed"
         /\ tasks[i].retry_count < tasks[i].max_retries)

\* C15: a tick run when no task is due and none is retry-eligible changes
\* nothing: it finds nothing to iterate over and leaves store, guard and
\* workers as they were.
C15_TickWithNothingDueIsNoOp ==
  [][(TickBegin /\ NoneDue)
       => (/\ tick_queue' = <<>>
           /\ tasks' = tasks
           /\ executing_tasks' = executing_tasks
           /\ workers' = workers
           /\ is_running' = is_running)]_vars

\* C15 witness: the scheduler runs, the main thread is idle, and the store
\* holds a pending task whose publish time is still ahead and a terminal
\* failed task, so ticks fire with tasks stored but nothing due.
C15_Witness ==
  /\ is_running
  /\ MainIdle
  /\ NoneDue
  /\ \E i \in 1..Len(tasks) :
       tasks[i].status = "pending" /\ tasks[i].publish_time > now
  /\ \E i \in 1..Len(tasks) :
       tasks[i].status = "failed"

\* the result of execute_task_immediately(id) in the current state
ExecuteNowResult(id) ==
  execute_task_immediately(is_running, tasks, executing_tasks, workers, id, now)

\* the cases in which ExecuteNow must refuse
MustRefuse(id) ==
  \/ executing_tasks # {}
  \/ \A i \in 1..Len(tasks) : tasks[i].id # id
  \/ \E i \in 1..Len(tasks) : tasks[i].id = id /\ tasks[i].status # "pending"
  \/ ~is_running

\* C16: ExecuteNow(id) returns false and leaves store, guard and workers
\* unchanged whenever the guard is held, the task does not exist, its status
\* is not pending, or the scheduler is not running.
C16_ExecuteNowRefusals ==
  \A id \in TaskIds :
    MustRefuse(id) =>
      /\ ExecuteNowResult(id).returned = FALSE
      /\ ExecuteNowResult(id).tasks = tasks
      /\ ExecuteNowResult(id).executing = executing_tasks
      /\ ExecuteNowResult(id).workers = workers

\* C16 witness: the scheduler runs with a free guard and ExecuteNow is asked
\* for a stored task that is failed, so only the status test refuses it.
C16_Witness ==
  /\ is_running
  /\ MainIdle
  /\ executing_tasks = {}
  /\ \E id \in StoredIds : TaskOf(id).status = "failed"

\* C17: on a pending task with a free guard and a running scheduler ExecuteNow
\* dispatches at once (status running, guard = {id}, a worker started), also
\* when the interval policy refuses; with the guard held it starts nothing.
C17_ExecuteNowDispatches ==
  \A id \in TaskIds :
    /\ (is_running /\ executing_tasks = {} /\ Stored(id)
        /\ TaskOf(id).status = "pending")
         => LET r == ExecuteNowResult(id)
            IN /\ r.returned
               /\ r.started
               /\ r.executing = {id}
               /\ r.tasks[get_task_by_id(r.tasks, id)].status = "running"
               /\ r.workers[id] = workers[id] + 1
    /\ executing_tasks # {} => ~ExecuteNowResult(id).started

\* C17 witness: a task was dispatched at a moment at which the interval
\* policy refuses (a task completed less than the minimum interval ago).
C17_Witness ==
  /\ ~check_publish_interval(tasks, now)
  /\ \E id \in StoredIds :
       /\ TaskOf(id).status = "running"
       /\ TaskOf(id).updated_time = now
       /\ executing_tasks = {id}
       /\ workers[id] = 1
       /\ Cardinality(InFlight) = 1

C19_IntervalPolicy ==
  check_publish_interval(tasks, now) <=>
    (\/ ~(\E i \in 1..Len(tasks) : tasks[i].status = "completed")
     \/ \A i \in 1..Len(tasks) :
          tasks[i].status = "completed"
            => now - tasks[i].updated_time >= min_publish_interval_minutes)

\* C19 witness: the last completion lies exactly the minimum interval back
\* and the policy allows.
C19_Witness ==
  /\ \E i \in 1..Len(tasks) :
       /\ tasks[i].status = "completed"
       /\ now - tasks[i].updated_time = min_publish_interval_minutes
  /\ check_publish_interval(tasks, now)

\* C20: retry_count counts the failed publisher attempts: it changes only in
\* a step in which a worker of that task returns, and then by exactly one.
C20_RetryCountCountsFailedAttempts ==
  [][\A id \in StoredIds :
       (StoredNext(id)
        /\ NextTaskOf(id).retry_count # TaskOf(id).retry_count)
         => (/\ NextTaskOf(id).retry_count = TaskOf(id).retry_count + 1
             /\ workers'[id] = workers[id] - 1)]_vars

\* C21: dispatching a task and completing the attempt successfully leave its
\* retry_count and max_retries as they were: no step that moves a task to
\* running or to completed changes either field.
C21_DispatchAndSuccessKeepRetryCount ==
  [][\A id \in StoredIds :
       (/\ StoredNext(id)
        /\ NextTaskOf(id).status \in {"running", "completed"}
        /\ NextTaskOf(id).status # TaskOf(id).status)
         => (/\ NextTaskOf(id).retry_count = TaskOf(id).retry_count
             /\ NextTaskOf(id).max_retries = TaskOf(id).max_retries)]_vars

\* C21 witness: a task that failed before was dispatched again and completed,
\* and still carries its retry count.
C21_Witness ==
  \E id \in StoredIds :
    /\ TaskOf(id).status = "completed"
    /\ TaskOf(id).retry_count > 0
    /\ id \in attempted

\* C22: a failed task with retry_count >= max_retries is ineligible until the
\* user's manual reset-for-retry, and that manual reset returns it to pending.
C22_ManualResetRevivesTerminalTask ==
  \A id \in StoredIds :
    (TaskOf(id).status = "failed"
     /\ TaskOf(id).retry_count >= TaskOf(id).max_retries)
      => LET ts == retry_task(tasks, id, now)
         IN ts[get_task_by_id(ts, id)].status = "pending"

\* C23: reset_for_retry sets status to pending and clears result_message and
\* changes nothing else but updated_time; the manual retry of an eligible
\* task replaces that one record in the store.
C23_ResetForRetryFrame ==
  \A i \in 1..Len(tasks) :
    LET t == tasks[i]
        r == reset_for_retry(t, now)
    IN /\ r.status = "pending"
       /\ r.result_message = "None"
       /\ r.id = t.id
       /\ r.publish_time = t.publish_time
       /\ r.created_time = t.created_time
       /\ r.retry_count = t.retry_count
       /\ r.max_retries = t.max_retries
       /\ can_retry(t) =>
            LET ts == retry_task(tasks, t.id, now)
            IN /\ Len(ts) = Len(tasks)
               /\ ts[i] = r
               /\ \A j \in 1..Len(tasks) : j # i => ts[j] = tasks[j]

\* C23 witness: a manual reset has acted: a task is pending with its message
\* cleared and with the retry count of its earlier failures.
C23_Witness ==
  \E i \in 1..Len(tasks) :
    /\ tasks[i].status = "pending"
    /\ tasks[i].result_message = "None"
    /\ tasks[i].retry_count > 0

\* records of a list
Records(ts) == {ts[i] : i \in 1..Len(ts)}

\* what the periodic sweep leaves in the store
Swept == cleanup_old_tasks(tasks, keep_days, now)

\* C24: the cleanup sweep never deletes a pending or running task, whatever
\* its age.
C24_CleanupKeepsPendingAndRunning ==
  \A i \in 1..Len(tasks) :
    tasks[i].status \in {"pending", "running"} => tasks[i] \in Records(Swept)

\* C24 witness: a sweep that deletes something while a pending or running
\* task as old as the retention window is in the store.
C24_Witness ==
  /\ Swept # tasks
  /\ \E i \in 1..Len(tasks) :
       /\ tasks[i].status \in {"pending", "running"}
       /\ now - tasks[i].updated_time >= KeepMinutes

\* C25: the cleanup sweep deletes only terminal tasks past the retention
\* window: a failed task with retries left is kept, and so is every task
\* updated within the window.
C25_CleanupDeletesOnlyTerminalOld ==
  \A i \in 1..Len(tasks) :
    (\/ can_retry(tasks[i])
     \/ now - tasks[i].updated_time < KeepMinutes)
      => tasks[i] \in Records(Swept)

\* C26: a task stored as running with no guard entry for longer than
\* publish_timeout_seconds is marked failed by the periodic sweep.
C26_OrphanMarkedFailedBySweep ==
  \A id \in StoredIds :
    (/\ TaskOf(id).status = "running"
     /\ id \notin executing_tasks
     /\ (now - TaskOf(id).updated_time) * 60 > publish_timeout_seconds)
      => \E t \in Records(Swept) : t.id = id /\ t.status = "failed"

\* C27: once a task is completed its status never changes again.
C27_CompletedIsTerminal ==
  [][\A id \in StoredIds :
       (TaskOf(id).status = "completed" /\ StoredNext(id))
         => NextTaskOf(id).status = "completed"]_vars

\* C27 witness: a task completed earlier is still completed while the
\* scheduler has, later, dispatched another task.
C27_Witness ==
  /\ is_running
  /\ \E id \in StoredIds :
       /\ TaskOf(id).status = "completed"
       /\ TaskOf(id).updated_time < now
  /\ \E id \in StoredIds :
       /\ TaskOf(id).status = "running"
       /\ TaskOf(id).updated_time = now

\* C28: update_task and delete_task on an id that is not stored return false
\* and leave the store unchanged; update_task on a stored id replaces exactly
\* the record with that id.
C28_UpdateDeleteByKey ==
  \A id \in 0..MaxTasks :
    IF get_task_by_id(tasks, id) = 0
    THEN LET t == create_new(id, now, now)
         IN /\ update_task(tasks, t) = tasks
            /\ ~update_task_returns(tasks, t)
            /\ delete_task(tasks, id) = tasks
            /\ ~delete_task_returns(tasks, id)
    ELSE LET t == mark_failed(TaskOf(id), "edited", now)
             ts == update_task(tasks, t)
         IN /\ update_task_returns(tasks, t)
            /\ Len(ts) = Len(tasks)
            /\ \A j \in 1..Len(tasks) :
                 ts[j] = IF tasks[j].id = id THEN t ELSE tasks[j]

\* C28 witness: the store holds two records and one id it has never seen.
C28_Witness ==
  /\ Len(tasks) = 2
  /\ get_task_by_id(tasks, 0) = 0
  /\ tasks[1] # tasks[2]

\* C29: get_ready_tasks returns all and only the pending tasks with
\* publish_time <= now, get_failed_retry_tasks all and only the failed tasks
\* with retry_count < max_retries; the two results are disjoint.
C29_QueriesReturnExactlyMatching ==
  LET due == get_ready_tasks(tasks, now)
      retry == get_failed_retry_tasks(tasks)
  IN /\ Records(due) = {t \in Records(tasks) :
                          t.status = "pending" /\ t.publish_time <= now}
     /\ Records(retry) = {t \in Records(tasks) :
                            t.status = "failed" /\ t.retry_count < t.max_retries}
     /\ Len(due) = Cardinality(Records(due))
     /\ Len(retry) = Cardinality(Records(retry))
     /\ {t.id : t \in Records(due)} \cap {t.id : t \in Records(retry)} = {}

\* C29 witness: the store holds a pending task that is not yet due and a
\* failed task with retries left.
C29_Witness ==
  /\ \E i \in 1..Len(tasks) :
       tasks[i].status = "pending" /\ tasks[i].publish_time > now
  /\ \E i \in 1..Len(tasks) : can_retry(tasks[i])

\* a step of one of the user's edit handlers
UserEdit ==
  \/ \E id \in TaskIds, nt \in {now, now + min_publish_interval_minutes} :
       EditPublishTime(id, nt)
  \/ \E id \in TaskIds : EditTask(id, now + min_publish_interval_minutes)

\* C30: no step of the scheduler (dispatch, completion, failure, contention
\* handling, cleanup), in fact no step but the user's edit of a task, changes
\* the publish_time, id or created_time of a task that stays in the store.
C30_SchedulerKeepsIdentityAndTimes ==
  [][UserEdit
     \/ \A id \in StoredIds :
          StoredNext(id)
            => (/\ NextTaskOf(id).id = TaskOf(id).id
                /\ NextTaskOf(id).publish_time = TaskOf(id).publish_time
                /\ NextTaskOf(id).created_time = TaskOf(id).created_time)]_vars

\* C30 witness: a task was dispatched and failed some time after it was
\* created.
C30_Witness ==
  \E id \in StoredIds :
    /\ id \in attempted
    /\ TaskOf(id).status = "failed"
    /\ TaskOf(id).updated_time > TaskOf(id).created_time

\* C31: the user's edit paths (inline publish-time edit, edit dialog, manual
\* retry) change a task only while it is pending or failed: no such step
\* changes a task that is running or completed.
C31_EditsOnlyWhilePendingOrFailed ==
  [][(UserEdit \/ \E rid \in TaskIds : RetryTask(rid))
       => \A id \in StoredIds :
            TaskOf(id).status \in {"running", "completed"}
              => (StoredNext(id) /\ NextTaskOf(id) = TaskOf(id))]_vars

\* C32: while the scheduler is not running a tick is a no-op: no tick is in
\* progress, and a tick (also the one publish_immediately runs) changes no
\* status and acquires no guard, even when tasks are due.
C32_TickIsNoOpWhileStopped ==
  /\ [](~is_running => tick_queue = <<>>)
  /\ [][(~is_running /\ (TickBegin \/ TickStep \/ PublishImmediately))
          => (/\ tick_queue' = <<>>
              /\ executing_tasks' = executing_tasks
              /\ workers' = workers
              /\ \A id \in StoredIds :
                   StoredNext(id)
                   /\ NextTaskOf(id).status = TaskOf(id).status)]_vars

\* C32 witness: the scheduler was stopped and a task is pending and due.
C32_Witness ==
  /\ ~is_running
  /\ MainIdle
  /\ attempted # {}
  /\ \E id \in StoredIds :
       TaskOf(id).status = "pending" /\ TaskOf(id).publish_time <= now

\* C33: whenever a worker's completion callback runs, for success or for
\* failure, the guard entry of its task id is removed, also when the task
\* was deleted while the attempt was in flight.
C33_CallbackReleasesGuard ==
  [][\A id \in TaskIds :
       workers'[id] < workers[id] => id \notin executing_tasks']_vars

\* C34: a tick never dispatches a task whose publish_time is in the future,
\* for pending tasks and for re-dispatched failed tasks alike.
C34_TickNeverDispatchesBeforePublishTime ==
  [][\A id \in StoredIds :
       (/\ TickRunning
        /\ tick_queue' = Tail(tick_queue)
        /\ StoredNext(id)
        /\ TaskOf(id).status # "running"
        /\ NextTaskOf(id).status = "running")
         => TaskOf(id).publish_time <= now]_vars

C36_SerializationRoundTrip ==
  \A i \in 1..Len(tasks) : from_dict(to_dict(tasks[i]), now) = tasks[i]

\* C37: for each operation id two invocations of a guarded function never
\* overlap, and the lock taken by an invocation is released only by that
\* invocation ending, whatever the timeout timer does.
C37_OperationGuardMutualExclusion ==
  /\ [](\A i, j \in 1..Len(call_stack) :
          i # j => call_stack[i] # call_stack[j])
  /\ [][\A op \in OperationIds :
          (op \in active_operations /\ op \notin active_operations')
            => (/\ call_stack # <<>>
                /\ call_stack[Len(call_stack)] = op
                /\ call_stack' = SubSeq(call_stack, 1, Len(call_stack) - 1))]_vars

\* C38: the active-tester slot is always given back: at most one tester
\* holds it, a refused tester never clears it, and once the holder's
\* test_account has returned the slot is free again.
C38_TesterSlotGivenBack ==
  active_tester_instance # 0
    => tester_pc[active_tester_instance] \in {"setup", "testing", "closing"}

\* C39: for every process the ProcessManager starts exactly one outcome
\* signal is emitted for its task id, also when the process is killed by
\* the timeout or by kill_all_processes: never more than one, and one once
\* the process is over.
C39_OneOutcomeSignalPerProcess ==
  \A id \in ProcessIds :
    /\ outcome_signals[id] <= 1
    /\ (id \in created_processes /\ id \notin active_processes)
         => outcome_signals[id] = 1

====
